---- MODULE Spec2Model ----
(***************************************************************************)
(* A model of x/evm/types/dynamic_fee_tx.go (DynamicFeeTx: construction    *)
(* from a go-ethereum transaction, accessors, signature storage, stateless *)
(* validation, fee and cost) and of statedb.TxConfig.                      *)
(*                                                                         *)
(* Go values are modelled as follows.                                      *)
(*   *big.Int, *sdk.Int, *common.Address : <<>> for nil, <<n>> otherwise   *)
(*   []byte                              : <<>> for a nil slice, <<a>> for *)
(*                                         a slice over backing array a of *)
(*                                         the heap mem                    *)
(*   AccessList ([]AccessTuple)          : likewise, over the heap als     *)
(* so that two slices alias exactly when they hold the same address.       *)
(***************************************************************************)
EXTENDS Integers, Sequences, FiniteSets, TLC

VARIABLES
    e,      \* the *ethtypes.Transaction the caller holds (<<>> when none)
    txs,    \* the DynamicFeeTx objects alive: "tx", and "cp" once Copy ran
    mem,    \* backing arrays of the byte slices
    als,    \* backing arrays of the AccessList slices
    last    \* the last call: operation, receiver, arguments, result

vars == <<e, txs, mem, als, last>>

\* ------------------------------------------------------------- bounds

\* Longest payload drawn for a transaction.
MaxLen == 1
\* Largest transaction / log index drawn for NewTxConfig.
MaxIndex == 3

\* ------------------------------------------------------- Go's values

None == <<>>
Some(x) == <<x>>

\* big.Int.Bytes(): the absolute value, big-endian, no leading zero byte;
\* the empty sequence for 0.
RECURSIVE Bytes(_)
Bytes(n) ==
    LET a == IF n < 0 THEN -n ELSE n
    IN  IF a = 0 THEN <<>> ELSE Append(Bytes(a \div 256), a % 256)

\* big.Int.SetBytes(): the big-endian unsigned value of the bytes.
RECURSIVE SetBytes(_)
SetBytes(bs) ==
    IF bs = <<>> THEN 0
    ELSE SetBytes(SubSeq(bs, 1, Len(bs) - 1)) * 256 + bs[Len(bs)]

\* sdk.NewIntFromBigInt and sdk.Int.BigInt(): the same integer, re-wrapped.
NewIntFromBigInt(n) == n
BigInt(i) == i

\* common.Address values: 0 is the zero address.
Addresses == {0, 1, 2}

\* common.Address.Hex(): the address as text.
Hex(a) ==
    CASE a = 0 -> "0x0000000000000000000000000000000000000000"
      [] a = 1 -> "0x0000000000000000000000000000000000000001"
      [] a = 2 -> "0x0000000000000000000000000000000000000002"

\* common.HexToAddress(): decodes the hex digits; text that is no hex decodes
\* to no bytes at all, which is the zero address.
HexToAddress(s) ==
    IF \E a \in Addresses : Hex(a) = s
    THEN CHOOSE a \in Addresses : Hex(a) = s
    ELSE 0

\* types.ValidateAddress(): nil for a hex address, an invalid-address error
\* otherwise.
ValidateAddress(s) ==
    IF \E a \in Addresses : Hex(a) = s THEN "nil" ELSE "ErrInvalidAddress"

\* ---------------------------------------------------------- the heap

\* The address make() hands out: the lowest one not in use.
NewAddr(m) ==
    CHOOSE a \in 1..(Cardinality(DOMAIN m) + 1) :
        /\ a \notin DOMAIN m
        /\ \A b \in 1..(a - 1) : b \in DOMAIN m

\* make + fill: a fresh backing array holding bs.
Alloc(m, bs) ==
    LET a == NewAddr(m)
    IN  [ref |-> Some(a),
         mem |-> [x \in DOMAIN m \cup {a} |-> IF x = a THEN bs ELSE m[x]]]

\* The bytes (or entries) a slice shows.
Content(m, ref) == IF ref = None THEN <<>> ELSE m[ref[1]]

\* s[i] = b through a slice: the backing array changes, for every slice over it.
Store(m, ref, i, b) == [m EXCEPT ![ref[1]][i] = b]

\* Garbage collection. Only aliasing is observable in Go, never an address, so
\* the arrays that live slices refer to are renumbered in the order of the
\* slices sl, and the others are gone. Order(sl) is that order: the distinct
\* addresses of sl, each where it first occurs.
RECURSIVE Order(_)
Order(sl) ==
    IF sl = <<>> THEN <<>>
    ELSE LET rest == Order(SubSeq(sl, 1, Len(sl) - 1))
             x    == sl[Len(sl)]
         IN  IF x = None \/ \E i \in 1..Len(rest) : rest[i] = x[1]
             THEN rest
             ELSE Append(rest, x[1])

Move(ord, ref) ==
    IF ref = None THEN None
    ELSE Some(CHOOSE k \in 1..Len(ord) : ord[k] = ref[1])

Collect(m, ord) == [k \in 1..Len(ord) |-> m[ord[k]]]

\* common.CopyBytes(): nil for nil, otherwise a new array with the same bytes.
CopyBytes(m, b) ==
    IF b = None THEN [ref |-> None, mem |-> m] ELSE Alloc(m, m[b[1]])

\* ------------------------------------------------------ DynamicFeeTx

\* ethtypes.DynamicFeeTxType.
DynamicFeeTxType == 2

\* common.Hash{}: the zero hash.
ZeroHash == 0

\* common.Hash values.
Hashes == {ZeroHash, 1, 2}

\* common.Hash.String(): a storage key as text.
HashHex(h) ==
    CASE h = 0 -> "0x00" [] h = 1 -> "0x01" [] h = 2 -> "0x02"

\* common.HexToHash().
HexToHash(s) ==
    IF \E h \in Hashes : HashHex(h) = s
    THEN CHOOSE h \in Hashes : HashHex(h) = s
    ELSE 0

\* The zero value of the struct, as &DynamicFeeTx{...} leaves the fields it
\* does not name.
ZeroTx ==
    [ChainID |-> None, Nonce |-> 0, GasTipCap |-> None, GasFeeCap |-> None,
     GasLimit |-> 0, To |-> "", Amount |-> None, Data |-> None,
     Accesses |-> None, V |-> None, R |-> None, S |-> None]

\* NewAccessList(&al): a new list, each address and storage key as text.
NewAccessList(a, al) ==
    Alloc(a, [i \in 1..Len(al) |->
                [Address |-> Hex(al[i].Address),
                 StorageKeys |-> [k \in 1..Len(al[i].StorageKeys) |->
                                    HashHex(al[i].StorageKeys[k])]]])

\* AccessList.ToEthAccessList(): appends each converted tuple to a nil list,
\* so no tuple leaves the list nil.
ToEthAccessList(entries) ==
    IF entries = <<>> THEN None
    ELSE Some([i \in 1..Len(entries) |->
                [Address |-> HexToAddress(entries[i].Address),
                 StorageKeys |-> [k \in 1..Len(entries[i].StorageKeys) |->
                                    HexToHash(entries[i].StorageKeys[k])]]])

GetChainID(t) ==
    IF t.ChainID = None THEN None ELSE Some(BigInt(t.ChainID[1]))

GetAccessList(a, t) ==
    IF t.Accesses = None THEN None ELSE ToEthAccessList(Content(a, t.Accesses))

GetData(m, t) == CopyBytes(m, t.Data)

GetGas(t) == t.GasLimit

\* GetGasTipCap reading the wrong cap, as its comment would have it ("returns
\* the gas price field").
GetGasTipCap_feeCap(t) ==
    IF t.GasFeeCap = None THEN None ELSE Some(BigInt(t.GasFeeCap[1]))

GetGasTipCap(t) ==
    IF t.GasTipCap = None THEN None ELSE Some(BigInt(t.GasTipCap[1]))

GetGasFeeCap(t) ==
    IF t.GasFeeCap = None THEN None ELSE Some(BigInt(t.GasFeeCap[1]))

\* GetGasPrice reporting the tip cap.
GetGasPrice_tipCap(t) ==
    IF t.GasTipCap = None THEN None ELSE Some(BigInt(t.GasTipCap[1]))

GetGasPrice(t) == GetGasFeeCap(t)

GetValue(t) ==
    IF t.Amount = None THEN None ELSE Some(BigInt(t.Amount[1]))

GetNonce(t) == t.Nonce

\* GetTo without the test for the empty string.
GetTo_noNilCheck(t) == Some(HexToAddress(t.To))

GetTo(t) == IF t.To = "" THEN None ELSE Some(HexToAddress(t.To))

\* rawSignatureValues(vBz, rBz, sBz): each scalar parsed from its bytes, nil
\* for no bytes.
rawSignatureValues(vBz, rBz, sBz) ==
    <<IF Len(vBz) > 0 THEN Some(SetBytes(vBz)) ELSE None,
      IF Len(rBz) > 0 THEN Some(SetBytes(rBz)) ELSE None,
      IF Len(sBz) > 0 THEN Some(SetBytes(sBz)) ELSE None>>

GetRawSignatureValues(m, t) ==
    rawSignatureValues(Content(m, t.V), Content(m, t.R), Content(m, t.S))

\* SetSignatureValues without the nil test on chainID: a nil chainID is stored.
SetSignatureValues_overwrite(m, t, chainID, v, r, s) ==
    LET bv == IF v # None THEN Alloc(m, Bytes(v[1]))
              ELSE [ref |-> t.V, mem |-> m]
        br == IF r # None THEN Alloc(bv.mem, Bytes(r[1]))
              ELSE [ref |-> t.R, mem |-> bv.mem]
        bs == IF s # None THEN Alloc(br.mem, Bytes(s[1]))
              ELSE [ref |-> t.S, mem |-> br.mem]
    IN  [tx  |-> [t EXCEPT !.V = bv.ref, !.R = br.ref, !.S = bs.ref,
                           !.ChainID = chainID],
         mem |-> bs.mem]

SetSignatureValues(m, t, chainID, v, r, s) ==
    LET bv == IF v # None THEN Alloc(m, Bytes(v[1]))
              ELSE [ref |-> t.V, mem |-> m]
        br == IF r # None THEN Alloc(bv.mem, Bytes(r[1]))
              ELSE [ref |-> t.R, mem |-> bv.mem]
        bs == IF s # None THEN Alloc(br.mem, Bytes(s[1]))
              ELSE [ref |-> t.S, mem |-> br.mem]
    IN  [tx  |-> [t EXCEPT !.V = bv.ref, !.R = br.ref, !.S = bs.ref,
                           !.ChainID = IF chainID # None
                                       THEN Some(NewIntFromBigInt(chainID[1]))
                                       ELSE @],
         mem |-> bs.mem]

\* ethtypes.Transaction.Data(): the transaction's own payload slice.
ExtData(x) == x.data

newDynamicFeeTx(m, a, x) ==
    LET al == IF x.accessList # None THEN NewAccessList(a, x.accessList[1])
              ELSE [ref |-> None, mem |-> a]
        txData ==
            [ZeroTx EXCEPT
                !.Nonce = x.nonce,
                !.Data = ExtData(x),
                !.GasLimit = x.gas,
                !.To = IF x.to # None THEN Hex(x.to[1]) ELSE @,
                !.Amount = IF x.value # None
                           THEN Some(NewIntFromBigInt(x.value[1])) ELSE @,
                !.GasFeeCap = IF x.gasFeeCap # None
                              THEN Some(NewIntFromBigInt(x.gasFeeCap[1])) ELSE @,
                !.GasTipCap = IF x.gasTipCap # None
                              THEN Some(NewIntFromBigInt(x.gasTipCap[1])) ELSE @,
                !.Accesses = al.ref]
        sig == SetSignatureValues(m, txData, x.chainID, x.v, x.r, x.s)
    IN  [tx |-> sig.tx, mem |-> sig.mem, als |-> al.mem]

TxType(t) == DynamicFeeTxType

\* Copy as a copy of the struct alone (cpy := *tx): every slice shared.
Copy_shallow(m, t) == [tx |-> t, mem |-> m]

Copy(m, t) ==
    LET d == CopyBytes(m, t.Data)
        v == CopyBytes(d.mem, t.V)
        r == CopyBytes(v.mem, t.R)
        s == CopyBytes(r.mem, t.S)
    IN  [tx  |-> [ChainID |-> t.ChainID, Nonce |-> t.Nonce,
                  GasTipCap |-> t.GasTipCap, GasFeeCap |-> t.GasFeeCap,
                  GasLimit |-> t.GasLimit, To |-> t.To, Amount |-> t.Amount,
                  Data |-> d.ref, Accesses |-> t.Accesses,
                  V |-> v.ref, R |-> r.ref, S |-> s.ref],
         mem |-> s.mem]

AsEthereumData(m, a, t) ==
    LET sig == GetRawSignatureValues(m, t)
        d   == GetData(m, t)
    IN  [tx  |-> [chainID |-> GetChainID(t), nonce |-> GetNonce(t),
                  gasTipCap |-> GetGasTipCap(t), gasFeeCap |-> GetGasFeeCap(t),
                  gas |-> GetGas(t), to |-> GetTo(t), value |-> GetValue(t),
                  data |-> d.ref, accessList |-> GetAccessList(a, t),
                  v |-> sig[1], r |-> sig[2], s |-> sig[3]],
         mem |-> d.mem]

NoError == [err |-> "nil", msg |-> ""]

\* Validate with the chain ID tested before the recipient.
Validate_chainIDFirst(t) ==
    LET gasPrice == GetGasPrice(t)
        amount   == GetValue(t)
    IN  IF gasPrice = None
        THEN [err |-> "ErrInvalidGasPrice", msg |-> "cannot be nil"]
        ELSE IF gasPrice[1] < 0
        THEN [err |-> "ErrInvalidGasPrice", msg |-> "gas price cannot be negative"]
        ELSE IF amount # None /\ amount[1] < 0
        THEN [err |-> "ErrInvalidAmount", msg |-> "amount cannot be negative"]
        ELSE IF GetChainID(t) = None
        THEN [err |-> "ErrInvalidChainID",
              msg |-> "chain ID must be present on AccessList txs"]
        ELSE IF t.To # "" /\ ValidateAddress(t.To) # "nil"
        THEN [err |-> ValidateAddress(t.To), msg |-> "invalid to address"]
        ELSE NoError

\* Validate without the test of the amount's sign.
Validate_noAmountCheck(t) ==
    LET gasPrice == GetGasPrice(t)
    IN  IF gasPrice = None
        THEN [err |-> "ErrInvalidGasPrice", msg |-> "cannot be nil"]
        ELSE IF gasPrice[1] < 0
        THEN [err |-> "ErrInvalidGasPrice", msg |-> "gas price cannot be negative"]
        ELSE IF t.To # "" /\ ValidateAddress(t.To) # "nil"
        THEN [err |-> ValidateAddress(t.To), msg |-> "invalid to address"]
        ELSE IF GetChainID(t) = None
        THEN [err |-> "ErrInvalidChainID",
              msg |-> "chain ID must be present on AccessList txs"]
        ELSE NoError

Validate(t) ==
    LET gasPrice == GetGasPrice(t)
        amount   == GetValue(t)
    IN  IF gasPrice = None
        THEN [err |-> "ErrInvalidGasPrice", msg |-> "cannot be nil"]
        ELSE IF gasPrice[1] < 0
        THEN [err |-> "ErrInvalidGasPrice", msg |-> "gas price cannot be negative"]
        ELSE IF amount # None /\ amount[1] < 0
        THEN [err |-> "ErrInvalidAmount", msg |-> "amount cannot be negative"]
        ELSE IF t.To # "" /\ ValidateAddress(t.To) # "nil"
        THEN [err |-> ValidateAddress(t.To), msg |-> "invalid to address"]
        ELSE IF GetChainID(t) = None
        THEN [err |-> "ErrInvalidChainID",
              msg |-> "chain ID must be present on AccessList txs"]
        ELSE NoError

\* fee(gasPrice, gas): gasPrice * gas over big.Int; big.Int.Mul dereferences
\* its operands, so a nil gasPrice panics.
fee(gasPrice, gas) ==
    IF gasPrice = None THEN [panic |-> TRUE, val |-> None]
    ELSE [panic |-> FALSE, val |-> Some(gasPrice[1] * gas)]

\* cost(fee, value): fee + value, or fee alone for a nil value.
cost(f, value) ==
    IF value # None THEN Some(f[1] + value[1]) ELSE f

Fee(t) == fee(GetGasPrice(t), GetGas(t))

\* The panic of Fee() unwinds through Cost().
Cost(t) ==
    LET f == Fee(t)
    IN  IF f.panic THEN f
        ELSE [panic |-> FALSE, val |-> cost(f.val, GetValue(t))]

\* ---------------------------------------------------------- TxConfig

NewTxConfig(bhash, thash, txIndex, logIndex) ==
    [BlockHash |-> bhash, TxHash |-> thash,
     TxIndex |-> txIndex, LogIndex |-> logIndex]

\* NewEmptyTxConfig with the block hash in both hash fields.
NewEmptyTxConfig_blockAsTx(bhash) ==
    [BlockHash |-> bhash, TxHash |-> bhash, TxIndex |-> 0, LogIndex |-> 0]

NewEmptyTxConfig(bhash) ==
    [BlockHash |-> bhash, TxHash |-> ZeroHash, TxIndex |-> 0, LogIndex |-> 0]

\* ------------------------------------------------------------ calls

\* The slices that keep a byte array alive: the caller's transaction payload,
\* the byte fields of every DynamicFeeTx, and the slice last returned.
TxSlots(ts, o) ==
    IF o \in DOMAIN ts THEN <<ts[o].Data, ts[o].V, ts[o].R, ts[o].S>> ELSE <<>>

MemRoots(x, ts, l) ==
    <<IF x = None THEN None ELSE x[1].data>>
    \o TxSlots(ts, "tx") \o TxSlots(ts, "cp") \o <<l.slice>>

AlsRoots(ts) ==
    (IF "tx" \in DOMAIN ts THEN <<ts["tx"].Accesses>> ELSE <<>>)
    \o (IF "cp" \in DOMAIN ts THEN <<ts["cp"].Accesses>> ELSE <<>>)

\* What a call leaves behind.
Result(op, o, args, panic, ret, slice) ==
    [op |-> op, tgt |-> o, args |-> args, panic |-> panic, ret |-> ret,
     slice |-> slice]

\* The state a call ends in: the source transaction x, the objects ts, the
\* heaps m and a, the result l.
Step(objects, bytes, lists, result) ==
    \E ts \in {objects}, m \in {bytes}, a \in {lists}, l \in {result} :
    \E sl \in {Order(MemRoots(e, ts, l))}, al \in {Order(AlsRoots(ts))} :
        /\ e' = IF e = None THEN None
                ELSE Some([e[1] EXCEPT !.data = Move(sl, @)])
        /\ txs' = [o \in DOMAIN ts |->
                    [ts[o] EXCEPT !.Data = Move(sl, @), !.V = Move(sl, @),
                                  !.R = Move(sl, @), !.S = Move(sl, @),
                                  !.Accesses = Move(al, @)]]
        /\ last' = [l EXCEPT !.slice = Move(sl, @)]
        /\ mem' = Collect(m, sl)
        /\ als' = Collect(a, al)

\* A call that only reads and returns ret.
Return(op, o, ret) ==
    Step(txs, mem, als, Result(op, o, <<>>, FALSE, ret, None))

Put(ts, o, t) == [x \in DOMAIN ts \cup {o} |-> IF x = o THEN t ELSE ts[x]]

newDynamicFeeTxCall ==
    /\ e # None
    /\ LET new == newDynamicFeeTx(mem, als, e[1])
       IN  Step(Put(txs, "tx", new.tx), new.mem, new.als,
                Result("newDynamicFeeTx", "tx", <<>>, FALSE, <<>>, None))

TxTypeCall(o) == Return("TxType", o, TxType(txs[o]))

CopyCall(o) ==
    /\ o = "tx"
    /\ LET c == Copy(mem, txs[o])
       IN  Step(Put(txs, "cp", c.tx), c.mem, als,
                Result("Copy", o, <<>>, FALSE, <<>>, None))

GetChainIDCall(o) == Return("GetChainID", o, GetChainID(txs[o]))

GetAccessListCall(o) == Return("GetAccessList", o, GetAccessList(als, txs[o]))

GetDataCall(o) ==
    LET d == GetData(mem, txs[o])
    IN  Step(txs, d.mem, als, Result("GetData", o, <<>>, FALSE, <<>>, d.ref))

GetGasCall(o) == Return("GetGas", o, GetGas(txs[o]))

GetGasPriceCall(o) == Return("GetGasPrice", o, GetGasPrice(txs[o]))

GetGasTipCapCall(o) == Return("GetGasTipCap", o, GetGasTipCap(txs[o]))

GetGasFeeCapCall(o) == Return("GetGasFeeCap", o, GetGasFeeCap(txs[o]))

GetValueCall(o) == Return("GetValue", o, GetValue(txs[o]))

GetNonceCall(o) == Return("GetNonce", o, GetNonce(txs[o]))

GetToCall(o) == Return("GetTo", o, GetTo(txs[o]))

\* The payload of the transaction returned is kept as the slice of the result.
AsEthereumDataCall(o) ==
    LET d == AsEthereumData(mem, als, txs[o])
    IN  Step(txs, d.mem, als,
             Result("AsEthereumData", o, <<>>, FALSE,
                    [d.tx EXCEPT !.data = None], d.tx.data))

GetRawSignatureValuesCall(o) ==
    Return("GetRawSignatureValues", o, GetRawSignatureValues(mem, txs[o]))

SetSignatureValuesCall(o, chainID, v, r, s) ==
    LET set == SetSignatureValues(mem, txs[o], chainID, v, r, s)
    IN  Step(Put(txs, o, set.tx), set.mem, als,
             Result("SetSignatureValues", o, <<chainID, v, r, s>>, FALSE,
                    <<>>, None))

\* Validate, Fee and Cost have value receivers: they work on a copy of the
\* struct and assign nothing.
ValidateCall(o) == Return("Validate", o, Validate(txs[o]))

FeeCall(o) ==
    LET f == Fee(txs[o])
    IN  Step(txs, mem, als, Result("Fee", o, <<>>, f.panic, f.val, None))

CostCall(o) ==
    LET c == Cost(txs[o])
    IN  Step(txs, mem, als, Result("Cost", o, <<>>, c.panic, c.val, None))

NewTxConfigCall(bhash, thash, txIndex, logIndex) ==
    Step(txs, mem, als,
         Result("NewTxConfig", "", <<bhash, thash, txIndex, logIndex>>, FALSE,
                NewTxConfig(bhash, thash, txIndex, logIndex), None))

NewEmptyTxConfigCall(bhash) ==
    Step(txs, mem, als,
         Result("NewEmptyTxConfig", "", <<bhash>>, FALSE,
                NewEmptyTxConfig(bhash), None))

\* ------------------------------------------- what the callers may do

ByteFields == {"Data", "V", "R", "S"}

\* The byte a caller writes in place.
WriteVals == {255}

\* t.Data[i] = b (or V, R, S) on a DynamicFeeTx the caller holds.
WriteField(o, f, i, b) ==
    /\ txs[o][f] # None
    /\ i \in 1..Len(mem[txs[o][f][1]])
    /\ Step(txs, Store(mem, txs[o][f], i, b), als,
            Result("WriteField", o, <<f, i, b>>, FALSE, <<>>, None))

\* A write through the payload slice of the source transaction.
WriteSource(i, b) ==
    /\ e # None
    /\ e[1].data # None
    /\ i \in 1..Len(mem[e[1].data[1]])
    /\ Step(txs, Store(mem, e[1].data, i, b), als,
            Result("WriteSource", "e", <<i, b>>, FALSE, <<>>, None))

\* A write through the slice last returned (by GetData or AsEthereumData),
\* which the caller goes on holding.
WriteReturned(i, b) ==
    /\ last.slice # None
    /\ i \in 1..Len(mem[last.slice[1]])
    /\ Step(txs, Store(mem, last.slice, i, b), als,
            Result("WriteReturned", last.tgt, <<i, b>>, FALSE, <<>>, last.slice))

\* The tuple a caller writes into an access list.
WriteTuples == {[Address |-> Hex(2), StorageKeys |-> <<>>]}

\* t.Accesses[i] = tuple on a DynamicFeeTx the caller holds.
WriteAccess(o, i, tuple) ==
    /\ txs[o].Accesses # None
    /\ i \in 1..Len(als[txs[o].Accesses[1]])
    /\ Step(txs, mem, Store(als, txs[o].Accesses, i, tuple),
            Result("WriteAccess", o, <<i>>, FALSE, <<>>, None))

\* --------------------------------------------- the transaction at rest

Start == Result("", "", <<>>, FALSE, <<>>, None)

\* A DynamicFeeTx as the wire decoder hands it over: any value of each field.
FeeCaps == {None, Some(-1), Some(0), Some(100)}
TipCaps == {None, Some(7)}
Amounts == {None, Some(-5), Some(0), Some(1000)}
GasLimits == {0, 21000}
Recipients == {"", "not-an-address", Hex(1)}
ChainIDs == {None, Some(1)}

Decoded ==
    {[ZeroTx EXCEPT !.GasFeeCap = f, !.GasTipCap = p, !.Amount = v,
                    !.GasLimit = g, !.To = to, !.ChainID = c] :
        f \in FeeCaps, p \in TipCaps, v \in Amounts, g \in GasLimits,
        to \in Recipients, c \in ChainIDs}

Init ==
    /\ e = None
    /\ txs \in {[o \in {"tx"} |-> t] : t \in Decoded}
    /\ mem = <<>>
    /\ als = <<>>
    /\ last = Start

Next ==
    \/ \E o \in DOMAIN txs : TxTypeCall(o)
    \/ \E o \in DOMAIN txs : CopyCall(o)
    \/ \E o \in DOMAIN txs : GetChainIDCall(o)
    \/ \E o \in DOMAIN txs : GetAccessListCall(o)
    \/ \E o \in DOMAIN txs : GetDataCall(o)
    \/ \E o \in DOMAIN txs : GetGasCall(o)
    \/ \E o \in DOMAIN txs : GetGasPriceCall(o)
    \/ \E o \in DOMAIN txs : GetGasTipCapCall(o)
    \/ \E o \in DOMAIN txs : GetGasFeeCapCall(o)
    \/ \E o \in DOMAIN txs : GetValueCall(o)
    \/ \E o \in DOMAIN txs : GetNonceCall(o)
    \/ \E o \in DOMAIN txs : GetToCall(o)
    \/ \E o \in DOMAIN txs : AsEthereumDataCall(o)
    \/ \E o \in DOMAIN txs : GetRawSignatureValuesCall(o)
    \/ \E o \in DOMAIN txs, c \in ChainIDs :
            SetSignatureValuesCall(o, c, None, None, None)
    \/ \E o \in DOMAIN txs : ValidateCall(o)
    \/ \E o \in DOMAIN txs : FeeCall(o)
    \/ \E o \in DOMAIN txs : CostCall(o)

Spec == Init /\ [][Next]_vars

\* ------------------------------------- conversion from and to go-ethereum

Payload(n) == [i \in 1..n |-> i]

\* The signatures drawn: none, the zero scalars of an unsigned transaction,
\* and scalars of one and of two bytes.
Signatures ==
    {<<None, None, None>>, <<Some(0), Some(0), Some(0)>>,
     <<Some(0), Some(300), Some(5)>>, <<Some(1), Some(3), Some(5)>>}

\* The transactions a caller may hand to newDynamicFeeTx, the payload by its
\* length: 0 is the nil slice.
ExtTxs ==
    {[nonce |-> 7, len |-> d, gas |-> 21000,
      to |-> to, value |-> val, gasFeeCap |-> f, gasTipCap |-> p,
      accessList |-> al, chainID |-> c,
      v |-> sig[1], r |-> sig[2], s |-> sig[3]] :
        d \in 0..MaxLen, to \in {None, Some(1)},
        val \in {None, Some(0), Some(1000)}, f \in {None, Some(0), Some(100)},
        p \in {None, Some(0), Some(2)},
        al \in {None, Some(<<[Address |-> 1, StorageKeys |-> <<2>>]>>)},
        c \in {None, Some(1)}, sig \in Signatures}

\* The transaction with its payload on the heap.
Held(x) ==
    [nonce |-> x.nonce, data |-> IF x.len = 0 THEN None ELSE Some(1),
     gas |-> x.gas, to |-> x.to, value |-> x.value, gasFeeCap |-> x.gasFeeCap,
     gasTipCap |-> x.gasTipCap, accessList |-> x.accessList,
     chainID |-> x.chainID, v |-> x.v, r |-> x.r, s |-> x.s]

ConvInit ==
    /\ \E x \in ExtTxs :
        /\ e = Some(Held(x))
        /\ mem = IF x.len = 0 THEN <<>> ELSE <<Payload(x.len)>>
    /\ txs = <<>>
    /\ als = <<>>
    /\ last = Start

ConvNext ==
    \/ newDynamicFeeTxCall
    \/ \E o \in DOMAIN txs : AsEthereumDataCall(o)
    \/ \E o \in DOMAIN txs : GetDataCall(o)
    \/ \E o \in DOMAIN txs : GetToCall(o)
    \/ \E i \in 1..MaxLen, b \in WriteVals : WriteSource(i, b)
    \/ \E i \in 1..MaxLen, b \in WriteVals : WriteReturned(i, b)

ConvSpec == ConvInit /\ [][ConvNext]_vars

\* ------------------------------------------------- signing a transaction

\* A DynamicFeeTx built from x, the source transaction let go.
Built(x) ==
    LET new == newDynamicFeeTx(IF x.len = 0 THEN <<>> ELSE <<Payload(x.len)>>,
                               <<>>, Held(x))
    IN  /\ e = None
        /\ txs = [o \in {"tx"} |-> new.tx]
        /\ mem = new.mem
        /\ als = new.als
        /\ last = Start

SigExts ==
    {x \in ExtTxs : /\ x.len = MaxLen /\ x.to = None /\ x.value = None
                    /\ x.gasFeeCap = Some(100) /\ x.gasTipCap = Some(2)}

SigInit == \E x \in SigExts : Built(x)

SigNext ==
    \/ \E o \in DOMAIN txs, c \in {None, Some(9)}, v \in {None, Some(0), Some(2)},
          r \in {None, Some(3)}, s \in {None, Some(260)} :
            SetSignatureValuesCall(o, c, v, r, s)
    \/ \E o \in DOMAIN txs : GetRawSignatureValuesCall(o)
    \/ \E o \in DOMAIN txs : GetChainIDCall(o)

SigSpec == SigInit /\ [][SigNext]_vars

\* --------------------------------------------- working on a copy

CopyExts ==
    {x \in ExtTxs : /\ x.len > 0 /\ x.to = Some(1) /\ x.value = Some(1000)
                    /\ x.gasFeeCap = Some(100) /\ x.gasTipCap = Some(2)
                    /\ x.v = Some(1) /\ x.chainID = Some(1)}

CopyInit == \E x \in CopyExts : Built(x)

CopyNext ==
    \/ \E o \in DOMAIN txs : CopyCall(o)
    \/ \E o \in DOMAIN txs, f \in ByteFields, i \in 1..MaxLen, b \in WriteVals :
            WriteField(o, f, i, b)
    \/ \E o \in DOMAIN txs, i \in 1..MaxLen, t \in WriteTuples :
            WriteAccess(o, i, t)
    \/ \E o \in DOMAIN txs, a \in {<<None, None, None, None>>,
                                   <<Some(9), Some(255), Some(255), Some(255)>>} :
            SetSignatureValuesCall(o, a[1], a[2], a[3], a[4])

CopySpec == CopyInit /\ [][CopyNext]_vars

\* ------------------------------------------------- execution contexts

CfgInit ==
    /\ e = None
    /\ txs = <<>>
    /\ mem = <<>>
    /\ als = <<>>
    /\ last = Start

CfgNext ==
    \/ \E b \in Hashes, t \in Hashes, i \in 0..MaxIndex, j \in 0..MaxIndex :
            NewTxConfigCall(b, t, i, j)
    \/ \E b \in Hashes : NewEmptyTxConfigCall(b)

CfgSpec == CfgInit /\ [][CfgNext]_vars

\* ------------------------------------------------------------ claims

\* The object a call makes anew: Copy() and newDynamicFeeTx() return a new
\* DynamicFeeTx, which takes the place of the one the caller held under that
\* name.
Made(op) ==
    CASE op = "Copy" -> {"cp"}
      [] op = "newDynamicFeeTx" -> {"tx"}
      [] OTHER -> {}

\* The DynamicFeeTx the last call was made on.
Receiver == txs[last.tgt]

\* The five rules of validation, as the specification lists them.
RulePasses(t, i) ==
    CASE i = 1 -> t.GasFeeCap # None
      [] i = 2 -> t.GasFeeCap = None \/ t.GasFeeCap[1] >= 0
      [] i = 3 -> t.Amount = None \/ t.Amount[1] >= 0
      [] i = 4 -> t.To = "" \/ \E a \in Addresses : t.To = Hex(a)
      [] i = 5 -> t.ChainID # None

RuleCategory(i) ==
    CASE i \in {1, 2} -> "ErrInvalidGasPrice"
      [] i = 3 -> "ErrInvalidAmount"
      [] i = 4 -> "ErrInvalidAddress"
      [] i = 5 -> "ErrInvalidChainID"

Failing(t) == {i \in 1..5 : ~RulePasses(t, i)}

FirstFailing(t) == CHOOSE i \in Failing(t) : \A j \in Failing(t) : i <= j

\* C1: Validate() returns no error exactly when all five rules pass, and
\* otherwise the error category of the lowest-numbered rule that fails.
C1_ValidateFirstFailure ==
    last.op = "Validate" =>
        IF Failing(Receiver) = {}
        THEN last.ret = NoError
        ELSE last.ret.err = RuleCategory(FirstFailing(Receiver))

\* Validate() has run on a transaction that breaks rules 3, 4 and 5 at once
\* and reported the amount.
C1_Witness ==
    /\ last.op = "Validate"
    /\ Failing(Receiver) = {3, 4, 5}
    /\ last.ret.err = "ErrInvalidAmount"

\* C5: no operation other than Validate() fails, whatever fields are absent.
C5_OperationsTotal == last.op # "Validate" => ~last.panic

\* C6: Fee() is GasFeeCap * GasLimit, GetGasPrice() is the fee cap and never
\* the tip cap, Cost() is Fee() plus the amount, an absent amount counting as
\* 0; for a transaction that has a fee cap.
C6_FeeAndCost ==
    LET t == Receiver
        amount == IF t.Amount = None THEN 0 ELSE t.Amount[1]
    IN  /\ last.op = "GetGasPrice" => last.ret = t.GasFeeCap
        /\ (last.op = "Fee" /\ t.GasFeeCap # None) =>
                /\ ~last.panic
                /\ last.ret = Some(t.GasFeeCap[1] * t.GasLimit)
        /\ (last.op = "Cost" /\ t.GasFeeCap # None) =>
                /\ ~last.panic
                /\ last.ret = Some(t.GasFeeCap[1] * t.GasLimit + amount)
        /\ (/\ last.op \in {"Fee", "Cost"} /\ t.GasFeeCap = Some(100)
            /\ t.GasLimit = 21000 /\ t.Amount = Some(1000)) =>
                last.ret = IF last.op = "Fee" THEN Some(2100000)
                           ELSE Some(2101000)

\* Cost() has returned 2101000 for fee cap 100, gas limit 21000, amount 1000,
\* on a transaction whose tip cap differs from its fee cap.
C6_Witness ==
    /\ last.op = "Cost"
    /\ Receiver.GasFeeCap = Some(100)
    /\ Receiver.GasTipCap = Some(7)
    /\ Receiver.GasLimit = 21000
    /\ Receiver.Amount = Some(1000)
    /\ last.ret = Some(2101000)

\* C10: a transaction that Validate() accepts has 0 <= Fee() <= Cost();
\* Validate(), Fee() and Cost() change no field of any transaction; and what
\* Validate() returns for a transaction changes only when SetSignatureValues
\* is called.
C10_ValidatedFeeWithinCost ==
    /\ [](\A o \in DOMAIN txs :
            Validate(txs[o]) = NoError =>
                /\ ~Fee(txs[o]).panic
                /\ ~Cost(txs[o]).panic
                /\ 0 <= Fee(txs[o]).val[1]
                /\ Fee(txs[o]).val[1] <= Cost(txs[o]).val[1])
    /\ [][last'.op \in {"Validate", "Fee", "Cost"} =>
            /\ txs' = txs
            /\ mem' = mem
            /\ als' = als]_vars
    /\ [][last'.op # "SetSignatureValues" =>
            \A o \in DOMAIN txs \ Made(last'.op) :
                Validate(txs'[o]) = Validate(txs[o])]_vars

\* Validate() has accepted a transaction with a positive amount and fee, so
\* that 0 < Fee() < Cost().
C10_Witness ==
    /\ last.op = "Validate"
    /\ last.ret = NoError
    /\ Receiver.Amount = Some(1000)
    /\ Fee(Receiver).val[1] > 0
    /\ Cost(Receiver).val[1] > Fee(Receiver).val[1]

\* What a slice shows to a reader: whether it is nil, and its elements.
Shown(m, ref) == [nil |-> ref = None, elems |-> Content(m, ref)]

\* A DynamicFeeTx as a reader sees it: every field, the slices by what they
\* show.
View(m, a, t) ==
    [t EXCEPT !.Data = Shown(m, @), !.V = Shown(m, @), !.R = Shown(m, @),
              !.S = Shown(m, @), !.Accesses = Shown(a, @)]

\* The source transaction and the object built from it.
Source == e[1]
Converted == txs["tx"]

\* A signature scalar as it comes back from its stored bytes: a scalar of 0
\* is stored as no bytes and comes back absent.
Stored(p) == IF p = None \/ p[1] = 0 THEN None ELSE p

\* The fields of the round trip that do not belong to the signature.
RoundTripBody(out) ==
    /\ out.to = Source.to
    /\ Content(mem, last.slice) = Content(mem, Source.data)
    /\ out.nonce = Source.nonce
    /\ out.gas = Source.gas
    /\ out.gasFeeCap = Source.gasFeeCap
    /\ out.gasTipCap = Source.gasTipCap
    /\ out.value = Source.value
    /\ out.chainID = Source.chainID

\* C2, as claimed: AsEthereumData(newDynamicFeeTx(e)) has every field of e,
\* V, R and S numerically equal, a zero scalar included.
C2_RoundTripNumeric ==
    last.op = "AsEthereumData" =>
        /\ RoundTripBody(last.ret)
        /\ last.ret.v = Source.v
        /\ last.ret.r = Source.r
        /\ last.ret.s = Source.s

\* C2, amended: AsEthereumData(newDynamicFeeTx(e)) has every field of e, and
\* V, R and S as their stored bytes give them back: numerically equal when
\* not zero, absent when zero or absent.
C2_RoundTripStored ==
    last.op = "AsEthereumData" =>
        /\ RoundTripBody(last.ret)
        /\ last.ret.v = Stored(Source.v)
        /\ last.ret.r = Stored(Source.r)
        /\ last.ret.s = Stored(Source.s)

\* AsEthereumData() has returned, for a source with V = 0, R = 300 and a
\* recipient, a transaction with V absent and R = 300.
C2_Witness ==
    /\ last.op = "AsEthereumData"
    /\ Source.v = Some(0)
    /\ Source.r = Some(300)
    /\ Source.to = Some(1)
    /\ Source.data # None
    /\ last.ret.v = None
    /\ last.ret.r = Some(300)

\* C7: newDynamicFeeTx(e) has To = "" and GetTo() absent exactly when e has no
\* recipient, and Amount, GasFeeCap, GasTipCap nil exactly when e's are nil;
\* a value that is present, zero included, is kept as it is.
C7_AbsencePreserved ==
    "tx" \in DOMAIN txs =>
        /\ (Converted.To = "") <=> (Source.to = None)
        /\ (GetTo(Converted) = None) <=> (Source.to = None)
        /\ Source.to # None => GetTo(Converted) = Source.to
        /\ Converted.Amount = Source.value
        /\ Converted.GasFeeCap = Source.gasFeeCap
        /\ Converted.GasTipCap = Source.gasTipCap

\* newDynamicFeeTx() has built a transaction from a source with no recipient,
\* no fee cap, a value of 0 and a tip cap of 0.
C7_Witness ==
    /\ last.op = "newDynamicFeeTx"
    /\ Source.to = None
    /\ Source.gasFeeCap = None
    /\ Source.value = Some(0)
    /\ Source.gasTipCap = Some(0)
    /\ Converted.Amount = Some(0)

\* C8: no write through the source transaction's payload, nor through a slice
\* that GetData() or AsEthereumData() returned, changes the stored Data.
C8_StoredDataNotAliased ==
    [][(last'.op \in {"WriteSource", "WriteReturned"} /\ "tx" \in DOMAIN txs) =>
            Content(mem', txs'["tx"].Data) = Content(mem, txs["tx"].Data)]_vars

\* The bytes SetSignatureValues stores for an argument, and what it leaves
\* for a nil one.
Kept(arg, before) ==
    IF arg # None THEN [nil |-> FALSE, elems |-> Bytes(arg[1])] ELSE before

\* One call SetSignatureValues(chainID, v, r, s) on object o, seen from the
\* outside: each of ChainID, V, R, S written when its argument is not nil,
\* every other field and every other object as before.
SetOnly(o, chainID, v, r, s) ==
    LET old == View(mem, als, txs[o])
        new == View(mem', als', txs'[o])
    IN  /\ new = [old EXCEPT !.V = Kept(v, @), !.R = Kept(r, @),
                             !.S = Kept(s, @),
                             !.ChainID = IF chainID # None THEN chainID ELSE @]
        /\ \A x \in DOMAIN txs \ {o} :
                View(mem', als', txs'[x]) = View(mem, als, txs[x])
        /\ DOMAIN txs' = DOMAIN txs

IsSig(l) == l.op = "SetSignatureValues"

SigOnly(a) == a[1] = None /\ a[2] # None /\ a[3] # None /\ a[4] # None

ChainOnly(a) == a[1] # None /\ a[2] = None /\ a[3] = None /\ a[4] = None

\* C3: SetSignatureValues writes each of ChainID, V, R, S only when its
\* argument is not nil and changes nothing else; after a call with (nil, v, r,
\* s) and a call with (chainID, nil, nil, nil), in either order, the
\* transaction holds v, r, s and chainID.
C3_PartialSignatureUpdate ==
    /\ [][IsSig(last') =>
            SetOnly(last'.tgt, last'.args[1], last'.args[2], last'.args[3],
                    last'.args[4])]_vars
    /\ [][(/\ IsSig(last) /\ IsSig(last') /\ last.tgt = last'.tgt
           /\ \/ SigOnly(last.args) /\ ChainOnly(last'.args)
              \/ ChainOnly(last.args) /\ SigOnly(last'.args)) =>
            LET sig == IF SigOnly(last.args) THEN last.args ELSE last'.args
                cid == IF SigOnly(last.args) THEN last'.args ELSE last.args
                t   == txs'[last'.tgt]
            IN  /\ Content(mem', t.V) = Bytes(sig[2][1])
                /\ Content(mem', t.R) = Bytes(sig[3][1])
                /\ Content(mem', t.S) = Bytes(sig[4][1])
                /\ GetRawSignatureValues(mem', t) =
                        <<Stored(sig[2]), Stored(sig[3]), Stored(sig[4])>>
                /\ t.ChainID = cid[1]]_vars

\* SetSignatureValues(9, nil, nil, nil) has run on a transaction that an
\* earlier SetSignatureValues(nil, 2, 3, 260) had signed: it holds both.
C3_Witness ==
    /\ IsSig(last)
    /\ ChainOnly(last.args)
    /\ Receiver.ChainID = Some(9)
    /\ GetRawSignatureValues(mem, Receiver) = <<Some(2), Some(3), Some(260)>>

\* The calls and writes that change a DynamicFeeTx in place.
ByteWrites == {"WriteField", "SetSignatureValues"}

Other(o) == IF o = "tx" THEN "cp" ELSE "tx"

\* A change of one of the two objects, by a call or write among ops, leaves
\* the other as it was.
Independent(ops) ==
    (/\ "cp" \in DOMAIN txs
     /\ last'.op \in ops) =>
        View(mem', als', txs'[Other(last'.tgt)]) =
            View(mem, als, txs[Other(last'.tgt)])

\* What Copy() returns equals its receiver field for field.
CopyEqual ==
    last.op = "Copy" =>
        View(mem, als, txs["cp"]) = View(mem, als, txs["tx"])

\* C4, as claimed: the clone equals the original, and no write to the bytes or
\* the access list entries of one, and no SetSignatureValues on one, changes
\* the other.
C4_CopyIndependent ==
    /\ []CopyEqual
    /\ [][Independent(ByteWrites \cup {"WriteAccess"})]_vars

\* C4, amended: the clone equals the original, and no write to the Data, V, R,
\* S bytes of one, and no SetSignatureValues on one, changes the other; the
\* access list is shared.
C4_CopyIndependentBytes ==
    /\ []CopyEqual
    /\ [][Independent(ByteWrites)]_vars

\* A byte of the clone's Data has been overwritten while the original's Data
\* still shows the payload, and the clone has been signed anew.
C4_Witness ==
    /\ "cp" \in DOMAIN txs
    /\ Content(mem, txs["cp"].Data)[1] = 255
    /\ Content(mem, txs["tx"].Data) = Payload(Len(Content(mem, txs["tx"].Data)))
    /\ txs["cp"].ChainID = Some(9)
    /\ txs["tx"].ChainID = Some(1)
    /\ Content(mem, txs["tx"].V) = <<1>>

\* C9: NewEmptyTxConfig(b) has BlockHash b, the zero TxHash, TxIndex 0 and
\* LogIndex 0, which is NewTxConfig(b, zero hash, 0, 0); NewTxConfig keeps its
\* four arguments as given.
C9_TxConfigConstructors ==
    /\ last.op = "NewEmptyTxConfig" =>
        /\ last.ret.BlockHash = last.args[1]
        /\ last.ret.TxHash = ZeroHash
        /\ last.ret.TxIndex = 0
        /\ last.ret.LogIndex = 0
        /\ last.ret = NewTxConfig(last.args[1], ZeroHash, 0, 0)
    /\ last.op = "NewTxConfig" =>
        /\ last.ret.BlockHash = last.args[1]
        /\ last.ret.TxHash = last.args[2]
        /\ last.ret.TxIndex = last.args[3]
        /\ last.ret.LogIndex = last.args[4]

\* NewEmptyTxConfig has been called with a block hash that is not the zero
\* hash.
C9_Witness ==
    /\ last.op = "NewEmptyTxConfig"
    /\ last.args[1] # ZeroHash
    /\ last.ret.BlockHash = last.args[1]

====
